---- MODULE Spec2Model ----
(***************************************************************************)
(* A model of the CDS Hooks tutorial service (index.js): one HTTP request   *)
(* travelling through the Express middleware chain (CORS, authorization),   *)
(* the router and the four route handlers, including the asynchronous       *)
(* FHIR search of the hypertension service.                                 *)
(*                                                                          *)
(* JavaScript values are encoded as follows.  An optional value (a field    *)
(* that may be undefined) is a sequence of length 0 or 1: <<>> is           *)
(* undefined, <<v>> is v.  A string built by concatenation or by a template *)
(* literal is the tuple of its pieces.                                      *)
(***************************************************************************)
EXTENDS Integers, Sequences, FiniteSets, TLC

VARIABLES
  req,        \* the request object the middleware and handlers share
  received,   \* history: the request exactly as it was received
  pc,         \* position of the request in the chain
  res,        \* the response object
  gate,       \* what the authorization middleware decided
  ran,        \* the route handler that ran for this request
  search,     \* the outbound FHIR search: its state, attempts and outcome
  conditionsBundle,   \* what retrieveHypertensionConditionsFhirJs resolved to
  unhandledRejection  \* an exception escaped a promise callback

vars == <<req, received, pc, res, gate, ran, search, conditionsBundle, unhandledRejection>>

-----------------------------------------------------------------------------
(* Bounds of the model *)

\* token expiry times range over 0 .. 2 * MaxSkew around the tolerance limit
MaxSkew == 1
\* a search-result Bundle has at most this many entries
MaxEntries == 2

-----------------------------------------------------------------------------
(* Optional values *)

Undefined == <<>>
Some(v) == <<v>>
IsDefined(o) == o # <<>>
Get(o) == o[1]

-----------------------------------------------------------------------------
(* Program constants *)

clockTolerance == 5 * 60
algorithms == {"ES384", "RS384"}
issuer == {"https://sandbox.cds-hooks.org"}
AspirinCode == "243670"
MedicationTypes == {"MedicationRequest", "MedicationOrder"}

DiscoveryPath == "/cds-services"
PatientViewPath == "/cds-services/patient-view-example"
HypertensionPath == "/cds-services/patient-view-hypertension"
OrderSelectPath == "/cds-services/order-select-example"
Paths == {DiscoveryPath, PatientViewPath, HypertensionPath, OrderSelectPath}

\* the time jwt.verify reads from the clock
Now == clockTolerance + MaxSkew

-----------------------------------------------------------------------------
(* The inputs: requests *)

Methods == {"GET", "POST", "OPTIONS"}
Hosts == {"cds.example.org:3000", "localhost:3000"}
Protocol == "https"

OtherOf(S, x) == CHOOSE y \in S : y # x

\* the URL the client used: protocol, host, originalUrl
Url(protocol, host, originalUrl) == <<protocol, "://", host, originalUrl>>

\* A signed token: the algorithm of its header, whether its signature
\* verifies under the service's public key with that algorithm, and its claims.
\* An RS384 signature never verifies under the service's EC key.
Signatures == {[alg |-> "ES384", verifies |-> TRUE], [alg |-> "ES384", verifies |-> FALSE],
               [alg |-> "RS384", verifies |-> FALSE], [alg |-> "HS256", verifies |-> TRUE]}
Issuers == {"https://sandbox.cds-hooks.org", "https://idp.example.com"}
Audiences(host, path) ==
  { Url(Protocol, host, path), Url("http", host, path),
    Url(Protocol, OtherOf(Hosts, host), path), Url(Protocol, host, OtherOf(Paths, path)) }
Tokens(host, path) ==
  [sig : Signatures, iss : Issuers, aud : Audiences(host, path), exp : 0 .. (2 * MaxSkew)]
GoodToken(host, path) ==
  [sig |-> [alg |-> "ES384", verifies |-> TRUE], iss |-> "https://sandbox.cds-hooks.org",
   aud |-> Url(Protocol, host, path), exp |-> 2 * MaxSkew]

\* An Authorization header: absent, or the literal pieces in front of a
\* compact token ("Bearer", "Basic", a space) followed by the token, if any.
NoHeader == [present |-> FALSE, prefix |-> <<>>, jwt |-> Undefined]
Header(prefix, jwt) == [present |-> TRUE, prefix |-> prefix, jwt |-> jwt]
MalformedPrefixes == {<<>>, <<"Basic", "SP">>, <<"Bearer">>, <<"Bearer", "SP", "SP">>,
                      <<"Bearer", "SP", "Bearer", "SP">>}
Headers(host, path) ==
  {NoHeader, Header(<<>>, Undefined), Header(<<"Bearer">>, Undefined),
   Header(<<"Bearer", "SP">>, Undefined)}
  \cup {Header(p, Some(GoodToken(host, path))) : p \in MalformedPrefixes}
  \cup {Header(<<"Bearer", "SP">>, Some(t)) : t \in Tokens(host, path)}

\* Patient resources of the prefetch
Patients ==
  { [name |-> Undefined, birthDate |-> Some("1980-01-01")],
    [name |-> Some(<<[given |-> <<"Tom">>, family |-> <<"Hanks">>]>>), birthDate |-> Some("1980-01-01")],
    [name |-> Some(<<[given |-> <<"Tom">>, family |-> <<"Hanks">>]>>), birthDate |-> Undefined] }

\* Draft orders of the order-select context
Codings == {<<[code |-> Some(AspirinCode)]>>, <<[code |-> Some("11111")]>>, <<[code |-> Undefined]>>}
CodeableConcepts ==
  {[text |-> "as written", coding |-> Undefined], [text |-> "as written", coding |-> Some(<<>>)]}
  \cup {[text |-> "as written", coding |-> Some(c)] : c \in Codings}
DraftOrders ==
  [resourceType : MedicationTypes \cup {"ProcedureRequest"}, id : {"m1"},
   medicationCodeableConcept : {Undefined} \cup {Some(m) : m \in CodeableConcepts}]
Reference(type, id) == <<type, "/", id>>
Selections ==
  {Undefined, Some({}), Some({Reference("MedicationRequest", "m1")}),
   Some({Reference("MedicationOrder", "m1")}), Some({Reference("MedicationRequest", "m2")})}

EmptyBody ==
  [prefetch |-> Undefined, context |-> Undefined, fhirServer |-> Undefined]
Bodies(path) ==
  CASE path = PatientViewPath ->
         {EmptyBody} \cup {[EmptyBody EXCEPT !.prefetch = Some([requestedPatient |-> p])] : p \in Patients}
    [] path = HypertensionPath ->
         {EmptyBody,
          [EmptyBody EXCEPT !.context = Some([patientId |-> "SMART-1288992"]),
                            !.fhirServer = Some("https://fhir.example.org")]}
    [] path = OrderSelectPath ->
         {EmptyBody,
          [EmptyBody EXCEPT !.context = Some([draftOrders |-> [entry |-> <<>>], selections |-> Some({})])]}
         \cup {[EmptyBody EXCEPT !.context = Some([draftOrders |-> [entry |-> <<[resource |-> d]>>],
                                                    selections |-> s])] :
                 d \in DraftOrders, s \in Selections}
    [] OTHER -> {EmptyBody}

Request(m, h, p, a, b) ==
  [method |-> m, protocol |-> Protocol, host |-> h, originalUrl |-> p, authorization |-> a, body |-> b]

-----------------------------------------------------------------------------
(* The response object *)

NoBody == [kind |-> "none", content |-> <<>>]
FreshResponse ==
  [statusCode |-> 200, cors |-> FALSE, wwwAuthenticate |-> Undefined,
   sends |-> 0, body |-> NoBody]

\* response.send(JSON.stringify(x)) and response.end(): the response leaves with
\* the status code set so far
Send(r, body) == [r EXCEPT !.sends = @ + 1, !.body = body]
End(r) == [r EXCEPT !.sends = @ + 1]
Status(r, code) == [r EXCEPT !.statusCode = code]

\* an exception thrown synchronously by a route handler reaches Express's
\* default error handler, which answers 500
ExpressError(r) == Send(Status(r, 500), [kind |-> "error", content |-> <<>>])

-----------------------------------------------------------------------------
(* State after the body parser has filled request.body *)

NoSearch == [state |-> "idle", attempts |-> 0, outcome |-> Undefined]

Init ==
  /\ \E m \in Methods, h \in Hosts, p \in Paths :
       \E a \in Headers(h, p), b \in Bodies(p) :
         /\ req = Request(m, h, p, a, b)
         /\ received = Request(m, h, p, a, b)
  /\ pc = "cors"
  /\ res = FreshResponse
  /\ gate = "pending"
  /\ ran = "none"
  /\ search = NoSearch
  /\ conditionsBundle = Undefined
  /\ unhandledRejection = FALSE

-----------------------------------------------------------------------------
(* CORS middleware *)

Cors ==
  /\ pc = "cors"
  /\ res' = [res EXCEPT !.cors = TRUE]
  /\ pc' = "auth"
  /\ UNCHANGED <<req, received, gate, ran, search, conditionsBundle, unhandledRejection>>

-----------------------------------------------------------------------------
(* Authorization middleware *)

\* !authorizationHeader: the header is missing or the empty string
Falsy(h) == ~h.present \/ (h.prefix = <<>> /\ ~IsDefined(h.jwt))

\* authorizationHeader.startsWith('Bearer'); a compact token begins with the
\* base64url text of '{"', never with the word Bearer
StartsWithBearer(h) == Len(h.prefix) > 0 /\ h.prefix[1] = "Bearer"

\* authorizationHeader.replace('Bearer ', ''): the first occurrence of the
\* word followed by a space is removed, whatever else the header holds
ReplaceBearerSpace(h) ==
  LET hits == {i \in 1 .. (Len(h.prefix) - 1) : h.prefix[i] = "Bearer" /\ h.prefix[i + 1] = "SP"}
  IN IF hits = {} THEN [prefix |-> h.prefix, jwt |-> h.jwt]
     ELSE LET i == CHOOSE k \in hits : \A j \in hits : k <= j
          IN [prefix |-> SubSeq(h.prefix, 1, i - 1) \o SubSeq(h.prefix, i + 2, Len(h.prefix)),
              jwt |-> h.jwt]

\* jwt.verify(token, pem, options) with the options of the middleware:
\* "ok", or the error it throws
JwtVerifyNoAudience(token, aud) ==
  IF token.prefix # <<>> \/ ~IsDefined(token.jwt) THEN "jwt malformed"
  ELSE LET t == Get(token.jwt)
       IN IF t.sig.alg \notin algorithms THEN "invalid algorithm"
          ELSE IF ~t.sig.verifies THEN "invalid signature"
          ELSE IF Now >= t.exp + clockTolerance THEN "jwt expired"
          ELSE IF t.iss \notin issuer THEN "jwt issuer invalid"
          ELSE "ok"

JwtVerifyAnyAlgorithm(token, aud) ==
  IF token.prefix # <<>> \/ ~IsDefined(token.jwt) THEN "jwt malformed"
  ELSE LET t == Get(token.jwt)
       IN IF ~t.sig.verifies THEN "invalid signature"
          ELSE IF Now >= t.exp + clockTolerance THEN "jwt expired"
          ELSE IF t.aud # aud THEN "jwt audience invalid"
          ELSE IF t.iss \notin issuer THEN "jwt issuer invalid"
          ELSE "ok"

JwtVerify(token, aud) ==
  IF token.prefix # <<>> \/ ~IsDefined(token.jwt) THEN "jwt malformed"
  ELSE LET t == Get(token.jwt)
       IN IF t.sig.alg \notin algorithms THEN "invalid algorithm"
          ELSE IF ~t.sig.verifies THEN "invalid signature"
          ELSE IF Now >= t.exp + clockTolerance THEN "jwt expired"
          ELSE IF t.aud # aud THEN "jwt audience invalid"
          ELSE IF t.iss \notin issuer THEN "jwt issuer invalid"
          ELSE "ok"

\* the WWW-Authenticate challenge of a rejected request
Challenge(serviceHost, description) ==
  [scheme |-> "Bearer", realm |-> serviceHost, error |-> "invalid_token",
   error_description |-> description]

Reject(description) ==
  /\ res' = End(Status([res EXCEPT !.wwwAuthenticate = Some(Challenge(req.host, description))], 401))
  /\ gate' = "rejected"
  /\ pc' = "done"

PassToNext ==
  /\ gate' = "next"
  /\ pc' = "route"
  /\ res' = res

NoBearerTokenOnlyMissing(h) == Falsy(h)

\* the header test of the middleware: TRUE when the request is turned away
\* before any token is read
NoBearerToken(h) == Falsy(h) \/ ~StartsWithBearer(h)

Authorization ==
  /\ pc = "auth"
  /\ IF req.method = "OPTIONS" THEN PassToNext
     ELSE IF NoBearerToken(req.authorization) THEN Reject("No Bearer token provided.")
     ELSE LET token == ReplaceBearerSpace(req.authorization)
              aud == Url(req.protocol, req.host, req.originalUrl)
          IN IF JwtVerify(token, aud) # "ok" THEN Reject("The token is invalid.")
             ELSE PassToNext
  /\ UNCHANGED <<req, received, ran, search, conditionsBundle, unhandledRejection>>

-----------------------------------------------------------------------------
(* Cards *)

Source(url) == [label |-> "CDS Service Tutorial", url |-> url]
Card(summary, indicator, url) ==
  [summary |-> summary, detail |-> Undefined, indicator |-> indicator, source |-> Some(Source(url)),
   suggestions |-> Undefined, links |-> Undefined]
CardsBody(cards) == [kind |-> "cards", content |-> cards]

\* what a string concatenation makes of a value that may be undefined
Text(o) == IF IsDefined(o) THEN Get(o) ELSE "undefined"

-----------------------------------------------------------------------------
(* Router: the routes registered with app.get and app.post *)

Routes ==
  {<<"GET", DiscoveryPath>>, <<"POST", PatientViewPath>>, <<"POST", HypertensionPath>>,
   <<"POST", OrderSelectPath>>}

Routed(method, path) == pc = "route" /\ req.method = method /\ req.originalUrl = path

\* an OPTIONS request to a registered path is answered by the router itself
RouterOptions ==
  /\ pc = "route"
  /\ req.method = "OPTIONS"
  /\ res' = Send(res, [kind |-> "allow", content |-> <<>>])
  /\ pc' = "done"
  /\ UNCHANGED <<req, received, gate, ran, search, conditionsBundle, unhandledRejection>>

\* no route is registered for the method and path: the router answers 404
NotFound ==
  /\ pc = "route"
  /\ req.method # "OPTIONS"
  /\ <<req.method, req.originalUrl>> \notin Routes
  /\ res' = Send(Status(res, 404), [kind |-> "error", content |-> <<>>])
  /\ pc' = "done"
  /\ UNCHANGED <<req, received, gate, ran, search, conditionsBundle, unhandledRejection>>

-----------------------------------------------------------------------------
(* Discovery endpoint *)

discoveryEndpointServices ==
  <<[hook |-> "patient-view", id |-> "patient-view-example",
     prefetch |-> Some([requestedPatient |-> "Patient/{{context.patientId}}"])],
    [hook |-> "patient-view", id |-> "patient-view-hypertension", prefetch |-> Undefined],
    [hook |-> "order-select", id |-> "order-select-example", prefetch |-> Undefined]>>

Discovery ==
  /\ Routed("GET", DiscoveryPath)
  /\ ran' = "discovery"
  /\ res' = Send(res, [kind |-> "services", content |-> discoveryEndpointServices])
  /\ pc' = "done"
  /\ UNCHANGED <<req, received, gate, search, conditionsBundle, unhandledRejection>>

-----------------------------------------------------------------------------
(* Patient View Example Service *)

patientViewCard(patientResource) ==
  LET name == Get(patientResource.name)[1]
      card == Card(<<"Now seeing: ", name.given[1], " ", name.family[1]>>, "info",
                   "https://github.com/cerner/cds-services-tutorial/wiki/Patient-View-Service")
  IN <<[card EXCEPT !.detail = Some(<<"Patient birthdate: ", Text(patientResource.birthDate)>>),
                    !.links = Some(<<[label |-> "Learn more about CDS Hooks", type |-> "absolute"],
                                     [label |-> "Launch SMART App!", type |-> "smart"]>>)]>>

\* TRUE when reading the patient's name out of the body throws a TypeError
PatientViewThrows(body) ==
  \/ ~IsDefined(body.prefetch)
  \/ ~IsDefined(Get(body.prefetch).requestedPatient.name)

PatientView ==
  /\ Routed("POST", PatientViewPath)
  /\ ran' = "patient-view-example"
  /\ IF PatientViewThrows(req.body) THEN res' = ExpressError(res)
     ELSE res' = Send(res, CardsBody(patientViewCard(Get(req.body.prefetch).requestedPatient)))
  /\ pc' = "done"
  /\ UNCHANGED <<req, received, gate, search, conditionsBundle, unhandledRejection>>

-----------------------------------------------------------------------------
(* Order Select Example Service *)

AspirinConcept ==
  [text |-> "Aspirin 81 MG Oral Tablet", coding |-> Some(<<[code |-> Some(AspirinCode)]>>)]

\* context.medicationCodeableConcept.coding[0].code throws when there is no
\* coding array or it is empty
CodingThrows(context) ==
  LET coding == Get(context.medicationCodeableConcept).coding
  IN ~IsDefined(coding) \/ Len(Get(coding)) = 0

suggestionCard(newMedicationRequest) ==
  [Card("Reduce cardiovascular risks, prescribe daily 81 MG Aspirin", "warning",
        "https://github.com/cerner/cds-services-tutorial/wiki/Order-Select-Service")
   EXCEPT !.suggestions =
     Some(<<[label |-> "Switch to low-dose Aspirin",
             actions |-> <<[type |-> "create", resource |-> newMedicationRequest]>>]>>)]

\* createMedicationResponseCard(context), for a context it does not throw on:
\* the cards it returns and the object `context` refers to when it returns.
\* newMedicationRequest is another name for that same object, so the
\* assignment to its medicationCodeableConcept is an assignment to context's.
createMedicationResponseCardKeepsCoding(context) ==
  LET providerOrderedMedication == Get(Get(context.medicationCodeableConcept).coding)[1].code
  IN IF providerOrderedMedication = Some(AspirinCode)
     THEN [cards |-> <<Card("Currently prescribing a low-dose Aspirin", "info",
                            "https://github.com/cerner/cds-services-tutorial/wiki/Order-Select-Service")>>,
           context |-> context]
     ELSE [cards |-> <<suggestionCard(context)>>, context |-> context]

createMedicationResponseCard(context) ==
  LET providerOrderedMedication == Get(Get(context.medicationCodeableConcept).coding)[1].code
  IN IF providerOrderedMedication = Some(AspirinCode)
     THEN [cards |-> <<Card("Currently prescribing a low-dose Aspirin", "info",
                            "https://github.com/cerner/cds-services-tutorial/wiki/Order-Select-Service")>>,
           context |-> context]
     ELSE LET newMedicationRequest ==
                [context EXCEPT !.medicationCodeableConcept = Some(AspirinConcept)]
          IN [cards |-> <<suggestionCard(newMedicationRequest)>>, context |-> newMedicationRequest]

\* TRUE when the handler throws before it reaches its test
OrderSelectThrows(body) ==
  \/ ~IsDefined(body.context)
  \/ Len(Get(body.context).draftOrders.entry) = 0

\* the three conjuncts of the handler's test, evaluated left to right: "throws"
\* when selections.includes is reached with no selections array
MedicationChosen(draftOrder, selections) ==
  IF draftOrder.resourceType \notin MedicationTypes THEN "no"
  ELSE IF ~IsDefined(selections) THEN "throws"
  ELSE IF Reference(draftOrder.resourceType, draftOrder.id) \notin Get(selections) THEN "no"
  ELSE IF ~IsDefined(draftOrder.medicationCodeableConcept) THEN "no"
  ELSE "yes"

OrderSelect ==
  /\ Routed("POST", OrderSelectPath)
  /\ ran' = "order-select-example"
  /\ pc' = "done"
  /\ IF OrderSelectThrows(req.body) THEN res' = ExpressError(res) /\ req' = req
     ELSE LET context == Get(req.body.context)
              draftOrder == context.draftOrders.entry[1].resource
              chosen == MedicationChosen(draftOrder, context.selections)
          IN IF chosen = "throws" THEN res' = ExpressError(res) /\ req' = req
             ELSE IF chosen = "no" THEN res' = Status(res, 200) /\ req' = req
             ELSE IF CodingThrows(draftOrder) THEN res' = ExpressError(res) /\ req' = req
             ELSE LET made == createMedicationResponseCard(draftOrder)
                  IN /\ res' = Status(Send(res, CardsBody(made.cards)), 200)
                     /\ req' = [req EXCEPT !.body.context =
                                  Some([context EXCEPT !.draftOrders.entry[1].resource = made.context])]
  /\ UNCHANGED <<received, gate, search, conditionsBundle, unhandledRejection>>

-----------------------------------------------------------------------------
(* Hypertension service and its FHIR search *)

Conditions ==
  {[resourceType |-> "Condition", code |-> Some([text |-> "Hypertensive disorder"])],
   [resourceType |-> "Condition", code |-> Some([text |-> "Essential hypertension"])]}
Resources == Conditions \cup {[resourceType |-> "OperationOutcome", code |-> Undefined]}
Entries == UNION {[1 .. n -> {[resource |-> r] : r \in Resources}] : n \in 0 .. MaxEntries}

\* what the remote server can answer with: a Bundle with or without an entry
\* array, a body that is no Bundle, or no body at all
ResponseBodies ==
  {Some([resourceType |-> "Bundle", entry |-> Some(e)]) : e \in Entries}
  \cup {Some([resourceType |-> "Bundle", entry |-> Undefined]),
        Some([resourceType |-> "OperationOutcome", entry |-> Undefined]),
        Undefined}

\* how client.search settles: resolved with a response, or rejected with an
\* error response (status) or an error (message)
SearchOutcomes ==
  {[kind |-> "resolved", data |-> d, status |-> Undefined, message |-> Undefined] : d \in ResponseBodies}
  \cup {[kind |-> "rejected", data |-> Undefined, status |-> Some(500), message |-> Undefined],
        [kind |-> "rejected", data |-> Undefined, status |-> Undefined, message |-> Some("ECONNREFUSED")],
        [kind |-> "rejected", data |-> Undefined, status |-> Undefined, message |-> Some("ETIMEDOUT")]}

\* the synchronous part of the handler: read the body, start the search,
\* register the callback, set the status code
HypertensionRespondsAtOnce ==
  /\ Routed("POST", HypertensionPath)
  /\ ran' = "patient-view-hypertension"
  /\ IF ~IsDefined(req.body.context)
     THEN /\ res' = ExpressError(res)
          /\ pc' = "done"
          /\ search' = search
     ELSE /\ search' = [state |-> "inflight", attempts |-> search.attempts + 1, outcome |-> Undefined]
          /\ res' = End(Status(res, 200))
          /\ pc' = "searching"
  /\ UNCHANGED <<req, received, gate, conditionsBundle, unhandledRejection>>

Hypertension ==
  /\ Routed("POST", HypertensionPath)
  /\ ran' = "patient-view-hypertension"
  /\ IF ~IsDefined(req.body.context)
     THEN /\ res' = ExpressError(res)
          /\ pc' = "done"
          /\ search' = search
     ELSE /\ search' = [state |-> "inflight", attempts |-> search.attempts + 1, outcome |-> Undefined]
          /\ res' = Status(res, 200)
          /\ pc' = "searching"
  /\ UNCHANGED <<req, received, gate, conditionsBundle, unhandledRejection>>

\* the remote server answers, fails, or the connection times out
SearchSettles ==
  /\ pc = "searching"
  /\ \E o \in SearchOutcomes :
       search' = [search EXCEPT !.state = "settled", !.outcome = Some(o)]
  /\ pc' = "fetcher"
  /\ UNCHANGED <<req, received, res, gate, ran, conditionsBundle, unhandledRejection>>

\* .then(function(res) { return res.data; })
FetcherThen ==
  /\ pc = "fetcher"
  /\ Get(search.outcome).kind = "resolved"
  /\ conditionsBundle' = Get(search.outcome).data
  /\ pc' = "callback"
  /\ UNCHANGED <<req, received, res, gate, ran, search, unhandledRejection>>

\* .catch(function(res) { ...log... }): the promise resolves to undefined
FetcherCatch ==
  /\ pc = "fetcher"
  /\ Get(search.outcome).kind = "rejected"
  /\ conditionsBundle' = Undefined
  /\ pc' = "callback"
  /\ UNCHANGED <<req, received, res, gate, ran, search, unhandledRejection>>

patientHypertensionCard(condition) ==
  <<Card(<<"Existing condition: ", Get(condition.code).text>>, "warning",
         "https://github.com/cerner/cds-services-tutorial/wiki/Exercises")>>

\* the test of the handler's callback on a bundle that is not undefined
HasCondition(bundle) ==
  /\ IsDefined(bundle.entry)
  /\ Len(Get(bundle.entry)) # 0
  /\ Get(bundle.entry)[1].resource.resourceType = "Condition"

\* .then((conditionsBundle) => { ... }) of the handler
HypertensionCallback ==
  /\ pc = "callback"
  /\ pc' = "done"
  /\ IF ~IsDefined(conditionsBundle)
     THEN unhandledRejection' = TRUE /\ res' = res
     ELSE /\ unhandledRejection' = unhandledRejection
          /\ IF HasCondition(Get(conditionsBundle))
             THEN res' = Send(res, CardsBody(patientHypertensionCard(
                                      Get(Get(conditionsBundle).entry)[1].resource)))
             ELSE res' = res
  /\ UNCHANGED <<req, received, gate, ran, search, conditionsBundle>>

-----------------------------------------------------------------------------

Next ==
  \/ Cors
  \/ Authorization
  \/ RouterOptions
  \/ NotFound
  \/ Discovery
  \/ PatientView
  \/ OrderSelect
  \/ Hypertension
  \/ SearchSettles
  \/ FetcherThen
  \/ FetcherCatch
  \/ HypertensionCallback

Spec == Init /\ [][Next]_vars

-----------------------------------------------------------------------------
(* The properties, stated on the request as it was received *)

DecisionHandlers == {"patient-view-example", "patient-view-hypertension", "order-select-example"}

GateDecided == pc \notin {"cors", "auth"}

\* the header has the form `Bearer <token>`
BearerForm(h) == h.present /\ h.prefix = <<"Bearer", "SP">> /\ IsDefined(h.jwt)

\* the request carries a bearer token that is validly signed, from the allowed
\* issuer, for the exact request URL and not expired beyond 300 seconds
ValidBearerToken(r) ==
  /\ BearerForm(r.authorization)
  /\ LET t == Get(r.authorization.jwt)
     IN /\ t.sig.alg \in {"ES384", "RS384"}
        /\ t.sig.verifies
        /\ t.iss = "https://sandbox.cds-hooks.org"
        /\ t.aud = <<r.protocol, "://", r.host, r.originalUrl>>
        /\ Now - t.exp < 300

\* the cards the response carries
EmittedCards == IF res.body.kind = "cards" THEN res.body.content ELSE <<>>

\* C1: a non-OPTIONS request without a valid bearer token is ended by the
\* authorization middleware with status 401 and a WWW-Authenticate challenge
\* whose realm is the request host, and no route handler runs for it.
C1_InvalidTokenIs401 ==
  (GateDecided /\ received.method # "OPTIONS" /\ ~ValidBearerToken(received))
    => /\ gate = "rejected"
       /\ pc = "done"
       /\ res.statusCode = 401
       /\ res.sends = 1
       /\ IsDefined(res.wwwAuthenticate)
       /\ Get(res.wwwAuthenticate).realm = received.host
       /\ ran = "none"

\* a well-formed, validly signed token for another audience has been rejected
C1_Witness ==
  /\ pc = "done" /\ gate = "rejected" /\ res.statusCode = 401
  /\ received.method = "POST"
  /\ BearerForm(received.authorization)
  /\ LET t == Get(received.authorization.jwt)
     IN /\ t.sig = [alg |-> "ES384", verifies |-> TRUE]
        /\ t.iss \in issuer
        /\ Now - t.exp < 300
        /\ t.aud # Url(received.protocol, received.host, received.originalUrl)

C3_PassesExactlyWhenValid ==
  GateDecided => ((gate = "next") <=> (received.method = "OPTIONS" \/ ValidBearerToken(received)))

\* a POST with a valid token has passed and reached its handler
C3_Witness ==
  /\ gate = "next"
  /\ received.method = "POST"
  /\ ValidBearerToken(received)
  /\ ran \in DecisionHandlers

\* C4: every POST to a decision service that passed the gate and whose
\* handling has ended without an error status has received exactly one
\* response, and that response carries a cards array.
C4_ExactlyOneCardsResponse ==
  (pc = "done" /\ ran \in DecisionHandlers /\ res.statusCode = 200)
    => (res.sends = 1 /\ res.body.kind = "cards")

\* C5: in the hypertension handler no response is sent while the outbound
\* search is in flight.
C5_NoSendWhileSearching ==
  (ran = "patient-view-hypertension" /\ search.state = "inflight") => res.sends = 0

\* the hypertension handler has sent its card, after the search settled
C5_Witness ==
  /\ ran = "patient-view-hypertension"
  /\ search.state = "settled"
  /\ res.sends = 1
  /\ Len(EmittedCards) = 1

\* the draft order of the received request, when the body holds one
HasDraft(r) == IsDefined(r.body.context) /\ Len(Get(r.body.context).draftOrders.entry) > 0
Draft(r) == Get(r.body.context).draftOrders.entry[1].resource

\* the preconditions of Order Substitution: a medication order type, its
\* reference among the selections, and a coded medication
OrderPreconditions(r) ==
  /\ HasDraft(r)
  /\ Draft(r).resourceType \in {"MedicationRequest", "MedicationOrder"}
  /\ IsDefined(Get(r.body.context).selections)
  /\ <<Draft(r).resourceType, "/", Draft(r).id>> \in Get(Get(r.body.context).selections)
  /\ IsDefined(Draft(r).medicationCodeableConcept)
  /\ IsDefined(Get(Draft(r).medicationCodeableConcept).coding)
  /\ Len(Get(Get(Draft(r).medicationCodeableConcept).coding)) > 0
OrderedCode(r) == Get(Get(Draft(r).medicationCodeableConcept).coding)[1].code

\* C6: when the preconditions hold, code 243670 yields exactly one info card
\* without suggestions and any other code exactly one warning card with one
\* suggestion whose action resource is the draft order with its medication
\* coding replaced by code 243670; when a precondition fails no card is emitted.
C6_OrderSubstitutionCards ==
  (pc = "done" /\ ran = "order-select-example")
    => IF ~OrderPreconditions(received) THEN EmittedCards = <<>>
       ELSE /\ Len(EmittedCards) = 1
            /\ IF OrderedCode(received) = <<"243670">>
               THEN /\ EmittedCards[1].indicator = "info"
                    /\ ~IsDefined(EmittedCards[1].suggestions)
               ELSE /\ EmittedCards[1].indicator = "warning"
                    /\ IsDefined(EmittedCards[1].suggestions)
                    /\ Len(Get(EmittedCards[1].suggestions)) = 1
                    /\ Len(Get(EmittedCards[1].suggestions)[1].actions) = 1
                    /\ LET resource == Get(EmittedCards[1].suggestions)[1].actions[1].resource
                       IN /\ resource.resourceType = Draft(received).resourceType
                          /\ resource.id = Draft(received).id
                          /\ Get(Get(resource.medicationCodeableConcept).coding) = <<[code |-> <<"243670">>]>>

\* a selected order for another medication got the substitution card
C6_Witness ==
  /\ pc = "done" /\ ran = "order-select-example"
  /\ OrderPreconditions(received)
  /\ OrderedCode(received) = <<"11111">>
  /\ Len(EmittedCards) = 1
  /\ EmittedCards[1].indicator = "warning"

\* C7: the hypertension handler emits exactly one warning card, with the text
\* of a condition of the bundle, when the fetched bundle has an entry of type
\* Condition at any position, and no card otherwise.
C7_CardIffAnyCondition ==
  (pc = "done" /\ ran = "patient-view-hypertension" /\ search.state = "settled")
    => LET entries == IF IsDefined(conditionsBundle) /\ IsDefined(Get(conditionsBundle).entry)
                      THEN Get(Get(conditionsBundle).entry) ELSE <<>>
           found == {i \in 1 .. Len(entries) : entries[i].resource.resourceType = "Condition"}
       IN IF found = {} THEN EmittedCards = <<>>
          ELSE /\ Len(EmittedCards) = 1
               /\ EmittedCards[1].indicator = "warning"
               /\ \E i \in found :
                    EmittedCards[1].summary = <<"Existing condition: ", Get(entries[i].resource.code).text>>

\* C8: whatever the outcome of the remote query, the fetcher of the
\* hypertension handler settles after a single attempt with either a body of
\* resource type Bundle or an absent result.
C8_FetcherBundleOrAbsent ==
  (ran = "patient-view-hypertension" /\ pc \in {"callback", "done"} /\ search.state = "settled")
    => /\ search.attempts = 1
       /\ \/ ~IsDefined(conditionsBundle)
          \/ Get(conditionsBundle).resourceType = "Bundle"

\* C9: once a request has passed the gate and its decision handler has ended,
\* the status is 200 and no exception has escaped.
C9_OnlyAuthFailuresSurface ==
  (pc = "done" /\ ran \in DecisionHandlers) => (res.statusCode = 200 /\ ~unhandledRejection)

\* C10: after Order Substitution has run, the draft order of the request is
\* the one that was received.
C10_DraftOrderUnchanged ==
  (pc = "done" /\ ran = "order-select-example") => req.body = received.body

====
